---- MODULE Spec2Model ----
(***************************************************************************)
(* A model of bin/create_project.py: the scaffolder that creates a fixed   *)
(* directory/file skeleton under <base_path>/<project_name>.               *)
(*                                                                         *)
(* A path is a sequence of components relative to base_path: <<>> is       *)
(* base_path itself, <<name>> is the project root.  The filesystem is a    *)
(* function from the paths that exist to their node (a directory, or a     *)
(* file with its content).  A text is a sequence of lines.                 *)
(***************************************************************************)
EXTENDS Naturals, Integers, Sequences, FiniteSets, TLC

\* ------------------------------------------------------------- bounds

\* Number of entries that may exist under base_path before the run starts.
MaxPre == 2
\* Number of entries a concurrent external process may create.
MaxExternal == 2
\* Number of tokens in the README template resource.
MaxTplLen == 2
\* Number of template directories already present before the directory step
\* is applied on its own.
MaxPreDirs == 2
\* Number of whole lines of a text a failing write may have stored.
MaxWritten == 1

\* Project names the run may be invoked with.
ProjectNames == {"projA", "projB"}

\* ------------------------------------------------------------- texts

Line(d, n, k, c) == [depth |-> d, name |-> n, kind |-> k, note |-> c]

BlankLine == Line(0, "", "blank", "")

\* ------------------------------------------------------------- paths

Base == <<>>

Parent(p) == SubSeq(p, 1, Len(p) - 1)

Prefixes(p) == {SubSeq(p, 1, k) : k \in 0..Len(p)}

ProperPrefixes(p) == {SubSeq(p, 1, k) : k \in 0..(Len(p) - 1)}

\* project_root = Path(base_path) / project_name
project_root(name) == Base \o <<name>>

\* The directory list of create_project, in its order.
directories ==
  << <<"metadata">>,
     <<"docs">>,
     <<"data", "raw", "sequencing">>,
     <<"data", "raw", "imaging">>,
     <<"data", "references">>,
     <<"data", "processed">>,
     <<"src", "preprocessing">>,
     <<"src", "training">>,
     <<"src", "evaluation">>,
     <<"src", "analysis">>,
     <<"src", "visualization">>,
     <<"src", "utils">>,
     <<"models", "checkpoints">>,
     <<"models", "final_models">>,
     <<"results", "figures">>,
     <<"results", "tables">>,
     <<"results", "reports">>,
     <<"notebooks">>,
     <<"configs">>,
     <<"environment">>,
     <<"temp">>,
     <<"archive">> >>

readme_file == <<"README.md">>

license_file == <<"LICENSE">>

\* Mutant: the third metadata file is left out.
meta_files_two ==
  << <<"metadata", "project_metadata.txt">>,
     <<"metadata", "sample_metadata.csv">> >>

meta_files ==
  << <<"metadata", "project_metadata.txt">>,
     <<"metadata", "sample_metadata.csv">>,
     <<"metadata", "experiment_metadata.xlsx">> >>

env_files ==
  << <<"environment", "requirements.txt">>,
     <<"environment", "environment.yml">> >>

\* Mutant: LICENSE is not written.
placeholder_files_no_license == meta_files \o env_files

\* The empty files in the order the code writes them: LICENSE, the metadata
\* files, the environment files.
placeholder_files == <<license_file>> \o meta_files \o env_files

\* The canonical structure block (the f-string of lines 64-99): one line per
\* entry, its depth read off the tree-drawing prefix, a trailing "/" making
\* it a directory, and its comment.
structure_block(name) ==
  << Line(0, name, "dir", ""),
     Line(1, "README.md", "file", "Project-level README"),
     Line(1, "LICENSE", "file", "Empty placeholder license file"),
     Line(1, "metadata", "dir", ""),
     Line(2, "project_metadata.txt", "file", "Project-level information (title, PI, funding)"),
     Line(2, "sample_metadata.csv", "file", "Sample information (IDs, species, conditions)"),
     Line(2, "experiment_metadata.xlsx", "file", "Experimental details (protocols, reagents, dates)"),
     Line(1, "data", "dir", ""),
     Line(2, "raw", "dir", ""),
     Line(3, "sequencing", "dir", "Raw sequencing data"),
     Line(3, "imaging", "dir", "Raw imaging data"),
     Line(2, "references", "dir", "Reference datasets or external resources"),
     Line(2, "processed", "dir", "Cleaned or feature-extracted data"),
     Line(1, "src", "dir", ""),
     Line(2, "preprocessing", "dir", "Scripts to prepare and clean raw data"),
     Line(2, "training", "dir", "Model training scripts"),
     Line(2, "evaluation", "dir", "Evaluation scripts"),
     Line(2, "analysis", "dir", "Analysis scripts"),
     Line(2, "visualization", "dir", "Visualization scripts"),
     Line(2, "utils", "dir", "Utility functions"),
     Line(1, "results", "dir", ""),
     Line(2, "figures", "dir", "Plots and visualizations"),
     Line(2, "tables", "dir", "Metrics and summary tables"),
     Line(2, "reports", "dir", "Reports or summaries of analysis"),
     Line(1, "docs", "dir", "Supporting documentation and protocols"),
     Line(1, "notebooks", "dir", "Jupyter or R notebooks"),
     Line(1, "configs", "dir", "Hyperparameters, training configs, experiment settings"),
     Line(1, "models", "dir", ""),
     Line(2, "checkpoints", "dir", "Intermediate saved model states"),
     Line(2, "final_models", "dir", "Final trained models"),
     Line(1, "environment", "dir", ""),
     Line(2, "environment.yml", "file", "Environment file (empty placeholder)"),
     Line(2, "requirements.txt", "file", "Requirements file (empty placeholder)"),
     Line(1, "temp", "dir", "Temporary files and cache"),
     Line(1, "archive", "dir", "Backup of old scripts, data, or model versions") >>

\* The path a line of a tree text names: the names of the nearest preceding
\* lines of each smaller depth, then its own (the first line is the root).
RECURSIVE TreeLinePath(_, _)
TreeLinePath(tree, k) ==
  IF tree[k].depth = 0 THEN <<>>
  ELSE LET ups == {m \in 1..(k - 1) : tree[m].depth = tree[k].depth - 1}
           up == CHOOSE m \in ups : \A n \in ups : n <= m
       IN TreeLinePath(tree, up) \o <<tree[k].name>>

\* The entries a tree text names, relative to its root line.
TreeEntries(tree) ==
  {[path |-> TreeLinePath(tree, k), kind |-> tree[k].kind] : k \in 1..Len(tree)}

\* -------------------------------------------------------- filesystem

DirNode == [kind |-> "dir", content |-> <<>>]

FileNode(text) == [kind |-> "file", content |-> text]

Kind(fs, p) == IF p \in DOMAIN fs THEN fs[p].kind ELSE "absent"

Put(fs, p, node) == [q \in DOMAIN fs \cup {p} |-> IF q = p THEN node ELSE fs[q]]

\* Path resolution of the ancestors of p: the error a system call on p gets
\* from the first ancestor that is not a directory, or "none".
ResolveParent(fs, p) ==
  LET bad == {q \in ProperPrefixes(p) : Kind(fs, q) # "dir"}
  IN IF bad = {} THEN "none"
     ELSE LET first == CHOOSE q \in bad : \A r \in bad : Len(q) <= Len(r)
          IN IF Kind(fs, first) = "file" THEN "ENOTDIR" ELSE "ENOENT"

\* The errors with which the system may refuse to examine a path: a
\* directory on the way that may not be searched, a name that is too long.
StatRefusals == {"EACCES", "ENAMETOOLONG"}

\* os.stat(p); `refusal` is "none" or the error the system answers with.
stat(fs, p, refusal) ==
  IF refusal # "none" THEN [err |-> refusal, kind |-> "absent"]
  ELSE IF ResolveParent(fs, p) # "none" THEN [err |-> ResolveParent(fs, p), kind |-> "absent"]
  ELSE IF p \notin DOMAIN fs THEN [err |-> "ENOENT", kind |-> "absent"]
  ELSE [err |-> "none", kind |-> fs[p].kind]

\* Path.exists(): the stat succeeds; ENOENT and ENOTDIR read as False and
\* every other error of the stat is raised.
path_exists(fs, p, refusal) ==
  LET st == stat(fs, p, refusal)
  IN [raised |-> st.err \notin {"none", "ENOENT", "ENOTDIR"},
      err |-> st.err,
      value |-> st.err = "none"]

\* Path.exists() when the system does not refuse the stat.
exists(fs, p) == path_exists(fs, p, "none").value

\* Path.is_dir()
is_dir(fs, p) == exists(fs, p) /\ fs[p].kind = "dir"

\* os.mkdir(p): `denied` are the paths whose creation the system refuses
\* (permissions, quota, read-only filesystem).
os_mkdir(fs, p, denied) ==
  LET r == ResolveParent(fs, p)
  IN IF r # "none" THEN [fs |-> fs, err |-> r, at |-> p]
     ELSE IF p \in DOMAIN fs THEN [fs |-> fs, err |-> "EEXIST", at |-> p]
     ELSE IF p \in denied THEN [fs |-> fs, err |-> "EACCES", at |-> p]
     ELSE [fs |-> Put(fs, p, DirNode), err |-> "none", at |-> p]

\* Mutant: mkdir is called without exist_ok.
mkdir_exist_ok_false == FALSE

\* The exist_ok argument the directory loop passes to Path.mkdir.
mkdir_exist_ok == TRUE

\* The parents argument the directory loop passes to Path.mkdir.
mkdir_parents == TRUE

\* pathlib.Path.mkdir(parents, exist_ok): os.mkdir; on FileNotFoundError
\* create the parent (parents=True, exist_ok=True) and retry without
\* parents; any other OSError is raised unless exist_ok and the path is a
\* directory.
RECURSIVE mkdir(_, _, _, _, _)
mkdir(fs, p, parents, exist_ok, denied) ==
  LET r == os_mkdir(fs, p, denied)
  IN IF r.err = "none" THEN r
     ELSE IF r.err = "ENOENT"
       THEN IF ~parents \/ p = Base THEN r
            ELSE LET up == mkdir(fs, Parent(p), TRUE, TRUE, denied)
                 IN IF up.err # "none" THEN up
                    ELSE mkdir(up.fs, p, FALSE, exist_ok, denied)
     ELSE IF ~exist_ok \/ ~is_dir(fs, p) THEN r
     ELSE [fs |-> fs, err |-> "none", at |-> p]

\* What the system may do to a write of a file: nothing, refuse the open,
\* or fail the write after storing `lines` whole lines of the text and, with
\* `cut`, a part of the next one.
NoFault == [kind |-> "none", errno |-> "", lines |-> 0, cut |-> FALSE]

OpenRefused == [kind |-> "open", errno |-> "EACCES", lines |-> 0, cut |-> FALSE]

WriteFailed(e, n, c) == [kind |-> "write", errno |-> e, lines |-> n, cut |-> c]

\* The errors a failing write is drawn from; the operators below take any
\* errno in the fault (EFBIG, EIO, ...) and no errno is caught by the run.
WriteErrnos == {"ENOSPC"}

Smaller(a, b) == IF a < b THEN a ELSE b

\* Writing an empty text stores nothing and cannot fail after the open.
WriteFaults(text) ==
  {NoFault, OpenRefused}
    \cup {WriteFailed(e, n, c) : e \in WriteErrnos,
                                 n \in 0..Smaller(MaxWritten, Len(text) - 1),
                                 c \in BOOLEAN}

\* What a file holds after a write of text failed part of the way.
PartOf(text, n, c) ==
  SubSeq(text, 1, n)
    \o (IF c THEN <<Line(text[n + 1].depth, text[n + 1].name, "partial", "")>> ELSE <<>>)

\* Mutant: the file is opened for appending, what it held is kept.
open_a(fs, p, text, fault) ==
  LET r == ResolveParent(fs, p)
  IN IF r # "none" THEN [fs |-> fs, err |-> r]
     ELSE IF Kind(fs, p) = "dir" THEN [fs |-> fs, err |-> "EISDIR"]
     ELSE IF fault.kind = "open" THEN [fs |-> fs, err |-> fault.errno]
     ELSE LET old == IF Kind(fs, p) = "file" THEN fs[p].content ELSE <<>>
          IN IF fault.kind = "write" /\ fault.lines < Len(text)
               THEN [fs |-> Put(fs, p, FileNode(old \o PartOf(text, fault.lines, fault.cut))),
                     err |-> fault.errno]
               ELSE [fs |-> Put(fs, p, FileNode(old \o text)), err |-> "none"]

\* open(p, "w"), write(text) and close under the fault `fault`: a refused
\* open changes nothing; a failed write leaves the file created or
\* truncated and holding the part of the text stored before the failure.
open_w(fs, p, text, fault) ==
  LET r == ResolveParent(fs, p)
  IN IF r # "none" THEN [fs |-> fs, err |-> r]
     ELSE IF Kind(fs, p) = "dir" THEN [fs |-> fs, err |-> "EISDIR"]
     ELSE IF fault.kind = "open" THEN [fs |-> fs, err |-> fault.errno]
     ELSE IF fault.kind = "write" /\ fault.lines < Len(text)
       THEN [fs |-> Put(fs, p, FileNode(PartOf(text, fault.lines, fault.cut))),
             err |-> fault.errno]
     ELSE [fs |-> Put(fs, p, FileNode(text)), err |-> "none"]

\* ----------------------------------------------------- README template

\* The tokens of a template text: literal text, the two named fields, a
\* field of another name, and a brace that opens no field.
TplTokens == {"text", "{project_name}", "{structure}", "{other}", "{"}

TemplateLine == Line(0, "template text", "text", "")

\* str.format(project_name=..., structure=...) over the tokens, left to
\* right: a field of an unknown name raises KeyError, a lone brace raises
\* ValueError, and a keyword argument no field uses is ignored.
RECURSIVE format(_, _, _)
format(tokens, name, structure) ==
  IF tokens = <<>> THEN [err |-> "none", text |-> <<>>]
  ELSE LET t == Head(tokens)
           rest == format(Tail(tokens), name, structure)
       IN IF t = "{other}" THEN [err |-> "KeyError", text |-> <<>>]
          ELSE IF t = "{" THEN [err |-> "ValueError", text |-> <<>>]
          ELSE IF rest.err # "none" THEN rest
          ELSE [err |-> "none",
                text |-> (CASE t = "text" -> <<TemplateLine>>
                            [] t = "{project_name}" -> <<Line(0, name, "text", "")>>
                            [] t = "{structure}" -> structure) \o rest.text]

\* The default README text of lines 130 and 132.
fallback_readme(name, structure) ==
  << Line(0, name, "title", ""),
     BlankLine,
     Line(0, "A standardized project layout created by create_project.py.", "text", ""),
     BlankLine >> \o structure \o <<BlankLine>>

\* The template resource: absent, a file that cannot be read as text, a
\* file holding tokens, or a path the system refuses to examine ("denied").
Template(state, tokens) == [state |-> state, tokens |-> tokens]

RECURSIVE SeqsUpTo(_, _)
SeqsUpTo(S, n) ==
  IF n = 0 THEN {<<>>}
  ELSE LET shorter == SeqsUpTo(S, n - 1)
       IN shorter \cup {Append(s, x) : s \in shorter, x \in S}

Templates ==
  {Template("absent", <<>>), Template("unreadable", <<>>), Template("denied", <<>>)}
    \cup {Template("file", s) : s \in SeqsUpTo(TplTokens, MaxTplLen)}

\* repo_root / "templates" / "README.md"; repo_root lies outside base_path.
template_path == <<"<repo_root>", "templates", "README.md">>

\* Lines 124-132: the README text for a template resource that could be
\* examined.
readme_text_of(tpl, name, structure) ==
  IF tpl.state = "absent" THEN fallback_readme(name, structure)
  ELSE IF tpl.state = "unreadable" THEN fallback_readme(name, structure)
  ELSE LET r == format(tpl.tokens, name, structure)
       IN IF r.err = "none" THEN r.text ELSE fallback_readme(name, structure)

\* ------------------------------------------------------------- state

VARIABLES
  project_name,  \* argument: the project's name
  dry_run,       \* argument: the --dry-run flag
  fs,            \* the filesystem under base_path
  fs0,           \* the filesystem when the run started
  pc,            \* where the run is
  i,             \* index into directories of the directory loop
  j,             \* index into placeholder_files of the file writes
  template,      \* the README template resource as the run found it
  readme_text,   \* the local readme_text
  out,           \* what the run printed, in order
  exit_code,     \* the process's exit status, -1 while it runs
  ops,           \* the filesystem writes the run attempted, in order
  ext,           \* the entries a concurrent external process created
  faulted,       \* whether the system refused or failed a call of the run
  fs_pass1       \* directory step alone: the filesystem after its first pass

vars == <<project_name, dry_run, fs, fs0, pc, i, j, template, readme_text,
          out, exit_code, ops, ext, faulted, fs_pass1>>

Root == project_root(project_name)

NDirs == Len(directories)

NPlaceholders == Len(placeholder_files)

\* The directories a project holds after a run: the listed ones and the
\* parents mkdir creates for them.
DirPathsRel == UNION {Prefixes(directories[k]) \ {<<>>} : k \in 1..NDirs}

FilePathsRel == {readme_file} \cup {placeholder_files[k] : k \in 1..NPlaceholders}

\* Every path of the project `name`: its root and what a run puts under it.
ProjectPaths(name) ==
  {project_root(name)} \cup {project_root(name) \o r : r \in DirPathsRel \cup FilePathsRel}

ExistingText == <<Line(0, "content written by someone else", "text", "")>>

NodeOfKind(k) == IF k = "dir" THEN DirNode ELSE FileNode(ExistingText)

\* The entries that can be added to fs: a path that does not exist and whose
\* parent is a directory, as a directory or as a file.
Addable(f, paths) ==
  {[path |-> q, kind |-> k] : q \in {r \in paths : r \notin DOMAIN f /\ Kind(f, Parent(r)) = "dir"},
                              k \in {"dir", "file"}}

RECURSIVE Grown(_, _, _)
Grown(F, paths, n) ==
  IF n = 0 THEN F
  ELSE LET smaller == Grown(F, paths, n - 1)
       IN smaller \cup UNION {{Put(f, e.path, NodeOfKind(e.kind)) : e \in Addable(f, paths)} : f \in smaller}

EmptyFs == [q \in {} |-> DirNode]

\* The filesystems a run may start from: base_path absent, a plain file, or a
\* directory holding up to MaxPre entries among the project's own paths.
InitialFilesystems(name) ==
  {EmptyFs, Put(EmptyFs, Base, FileNode(ExistingText))}
    \cup Grown({Put(EmptyFs, Base, DirNode)}, ProjectPaths(name), MaxPre)

Out(stream, kind, path, detail, body) ==
  [stream |-> stream, kind |-> kind, path |-> path, detail |-> detail, body |-> body]

NoTemplate == Template("unread", <<>>)

Init ==
  /\ project_name \in ProjectNames
  /\ dry_run \in BOOLEAN
  /\ fs \in InitialFilesystems(project_name)
  /\ fs0 = fs
  /\ pc = "start"
  /\ i = 1
  /\ j = 1
  /\ template = NoTemplate
  /\ readme_text = <<>>
  /\ out = <<>>
  /\ exit_code = -1
  /\ ops = <<>>
  /\ ext = {}
  /\ faulted = FALSE
  /\ fs_pass1 = EmptyFs

\* ----------------------------------------------------------- the run

\* An exception nothing catches: the interpreter prints a traceback on
\* stderr and exits with status 1.
Uncaught(path, err) == Out("stderr", "traceback", path, err, <<>>)

\* Lines 29-35: refuse a target that exists.  The stat of exists() is
\* outside every try: an error it raises ends the run.
CheckTarget ==
  /\ pc = "start"
  /\ \E refusal \in {"none"} \cup StatRefusals :
       LET found == path_exists(fs, Root, refusal)
       IN IF found.raised
            THEN /\ out' = Append(out, Uncaught(Root, found.err))
                 /\ exit_code' = 1
                 /\ pc' = "crashed"
                 /\ faulted' = TRUE
            ELSE IF found.value
              THEN /\ out' = Append(out, Out("stdout",
                                             IF is_dir(fs, Root) THEN "error_directory_already_exists"
                                                                 ELSE "error_exists_not_a_directory",
                                             Root, "", <<>>))
                   /\ exit_code' = 1
                   /\ pc' = "rejected"
                   /\ UNCHANGED faulted
              ELSE /\ pc' = "checked"
                   /\ UNCHANGED <<out, exit_code, faulted>>
  /\ UNCHANGED <<project_name, dry_run, fs, fs0, i, j, template, readme_text,
                 ops, ext, fs_pass1>>

\* Lines 102-104: a dry run prints the structure block and returns.
DryRunBranch ==
  /\ pc = "checked"
  /\ IF dry_run
       THEN /\ out' = Append(out, Out("stdout", "structure", Base, "", structure_block(project_name)))
            /\ exit_code' = 0
            /\ pc' = "dry_run_done"
       ELSE /\ pc' = "mkdir"
            /\ UNCHANGED <<out, exit_code>>
  /\ UNCHANGED <<project_name, dry_run, fs, fs0, i, j, template, readme_text,
                 ops, ext, faulted, fs_pass1>>

\* Mutant: one diagnostic for every error of mkdir.
mkdir_error_kind_generic(err) == "error_failed_to_create_directory"

\* Lines 113-118: the diagnostic for an error of mkdir.
mkdir_error_kind(err) ==
  IF err = "ENOTDIR" THEN "error_path_component_not_a_directory"
  ELSE "error_failed_to_create_directory"

\* Mutant: the loop is left after its first directory.
after_first_directory(k) == "template"

\* Where the run goes after the directory numbered k was created.
after_directory(k) == IF k = NDirs THEN "template" ELSE "mkdir"

\* Lines 109-118: one iteration of the directory loop.
MkdirStep ==
  /\ pc = "mkdir"
  /\ LET dir_path == Root \o directories[i]
     IN \E denied \in {{}} \cup {{q} : q \in {r \in Prefixes(dir_path) : r \notin DOMAIN fs}} :
          LET r == mkdir(fs, dir_path, mkdir_parents, mkdir_exist_ok, denied)
          IN /\ fs' = r.fs
             /\ ops' = Append(ops, [op |-> "mkdir", path |-> dir_path])
             /\ faulted' = (faulted \/ r.err = "EACCES")
             /\ IF r.err = "none"
                  THEN /\ pc' = after_directory(i)
                       /\ i' = i + 1
                       /\ UNCHANGED <<out, exit_code>>
                  ELSE /\ out' = Append(out, Out("stdout", mkdir_error_kind(r.err), dir_path, r.err, <<>>))
                       /\ exit_code' = 1
                       /\ pc' = "failed"
                       /\ i' = i
  /\ UNCHANGED <<project_name, dry_run, fs0, j, template, readme_text, ext, fs_pass1>>

\* Lines 122-132: look the template resource up and compute readme_text.
\* template_path.exists() is outside the try of lines 125-130: an error it
\* raises ends the run.
RenderReadme ==
  /\ pc = "template"
  /\ \E tpl \in Templates :
       /\ template' = tpl
       /\ IF tpl.state = "denied"
            THEN /\ out' = Append(out, Uncaught(template_path, "EACCES"))
                 /\ exit_code' = 1
                 /\ pc' = "crashed"
                 /\ faulted' = TRUE
                 /\ UNCHANGED readme_text
            ELSE /\ readme_text' = readme_text_of(tpl, project_name, structure_block(project_name))
                 /\ pc' = "write_readme"
                 /\ UNCHANGED <<out, exit_code, faulted>>
  /\ UNCHANGED <<project_name, dry_run, fs, fs0, i, j, ops, ext, fs_pass1>>

\* Line 134: write README.md.
WriteReadme ==
  /\ pc = "write_readme"
  /\ \E fault \in WriteFaults(readme_text) :
       LET r == open_w(fs, Root \o readme_file, readme_text, fault)
       IN /\ fs' = r.fs
          /\ ops' = Append(ops, [op |-> "write", path |-> Root \o readme_file])
          /\ faulted' = (faulted \/ r.err \in {"EACCES"} \cup WriteErrnos)
          /\ IF r.err = "none"
               THEN /\ pc' = "placeholders"
                    /\ UNCHANGED <<out, exit_code>>
               ELSE /\ out' = Append(out, Uncaught(Root \o readme_file, r.err))
                    /\ exit_code' = 1
                    /\ pc' = "crashed"
  /\ UNCHANGED <<project_name, dry_run, fs0, i, j, template, readme_text, ext, fs_pass1>>

\* Lines 136-157: write one empty placeholder file.
WritePlaceholder ==
  /\ pc = "placeholders"
  /\ LET p == Root \o placeholder_files[j]
     IN \E fault \in WriteFaults(<<>>) :
          LET r == open_w(fs, p, <<>>, fault)
          IN /\ fs' = r.fs
             /\ ops' = Append(ops, [op |-> "write", path |-> p])
             /\ faulted' = (faulted \/ r.err \in {"EACCES"} \cup WriteErrnos)
             /\ IF r.err = "none"
                  THEN /\ pc' = IF j = NPlaceholders THEN "summary" ELSE "placeholders"
                       /\ j' = j + 1
                       /\ UNCHANGED <<out, exit_code>>
                  ELSE /\ out' = Append(out, Uncaught(p, r.err))
                       /\ exit_code' = 1
                       /\ pc' = "crashed"
                       /\ j' = j
  /\ UNCHANGED <<project_name, dry_run, fs0, i, template, readme_text, ext, fs_pass1>>

\* Lines 159-165: the success message and the next steps.
summary_lines(root) ==
  << Out("stdout", "created_successfully_at", root, "", <<>>),
     Out("stdout", "see_readme", Base, "", <<>>),
     Out("stdout", "next_steps", Base, "", <<>>),
     Out("stdout", "step_cd", root, "", <<>>),
     Out("stdout", "step_update_readme", Base, "", <<>>),
     Out("stdout", "step_modify_structure", Base, "", <<>>) >>

PrintSummary ==
  /\ pc = "summary"
  /\ out' = out \o summary_lines(Root)
  /\ exit_code' = 0
  /\ pc' = "done"
  /\ UNCHANGED <<project_name, dry_run, fs, fs0, i, j, template, readme_text,
                 ops, ext, faulted, fs_pass1>>

Next ==
  \/ CheckTarget
  \/ DryRunBranch
  \/ MkdirStep
  \/ RenderReadme
  \/ WriteReadme
  \/ WritePlaceholder
  \/ PrintSummary

\* One run with the filesystem to itself (section 5's assumption).
Spec == Init /\ [][Next]_vars

\* The process is single-threaded and runs each step to completion.
FairSpec == Spec /\ WF_vars(Next)

\* ----------------------------------------------- a concurrent process

\* Between the existence check and what follows it, another process
\* creates an entry under the project's paths.
ExternalCreate ==
  /\ pc = "checked"
  /\ Cardinality(ext) < MaxExternal
  /\ \E e \in Addable(fs, ProjectPaths(project_name)) :
       /\ fs' = Put(fs, e.path, NodeOfKind(e.kind))
       /\ ext' = ext \cup {e}
  /\ UNCHANGED <<project_name, dry_run, fs0, pc, i, j, template, readme_text,
                 out, exit_code, ops, faulted, fs_pass1>>

NextRace == Next \/ ExternalCreate

SpecRace == Init /\ [][NextRace]_vars

\* ------------------------------------------- the directory step alone

RECURSIVE SetsUpTo(_, _)
SetsUpTo(S, n) ==
  IF n = 0 THEN {{}}
  ELSE LET smaller == SetsUpTo(S, n - 1)
       IN smaller \cup {s \cup {x} : s \in smaller, x \in S}

ListedDirs == {directories[k] : k \in 1..NDirs}

\* A tree under base_path in which the listed directories D of the project
\* (and so their parents) exist as directories.
TreeWith(name, D) ==
  LET there == {Base} \cup UNION {Prefixes(project_root(name) \o d) : d \in D}
  IN [q \in there |-> DirNode]

InitDirs ==
  /\ project_name \in ProjectNames
  /\ dry_run = FALSE
  /\ \E D \in SetsUpTo(ListedDirs, MaxPreDirs) \cup {ListedDirs} :
       fs = TreeWith(project_name, D)
  /\ fs0 = fs
  /\ pc = "dirs_pass1"
  /\ i = 1
  /\ j = 1
  /\ template = NoTemplate
  /\ readme_text = <<>>
  /\ out = <<>>
  /\ exit_code = -1
  /\ ops = <<>>
  /\ ext = {}
  /\ faulted = FALSE
  /\ fs_pass1 = EmptyFs

\* Lines 109-112 applied on their own, twice in a row: one mkdir of a pass.
DirStep ==
  /\ pc \in {"dirs_pass1", "dirs_pass2"}
  /\ LET dir_path == Root \o directories[i]
         r == mkdir(fs, dir_path, mkdir_parents, mkdir_exist_ok, {})
     IN /\ fs' = r.fs
        /\ ops' = Append(ops, [op |-> "mkdir", path |-> dir_path])
        /\ IF r.err # "none"
             THEN /\ pc' = "dirs_error"
                  /\ UNCHANGED <<i, fs_pass1>>
             ELSE IF i < NDirs
               THEN /\ i' = i + 1
                    /\ UNCHANGED <<pc, fs_pass1>>
               ELSE /\ i' = 1
                    /\ pc' = IF pc = "dirs_pass1" THEN "dirs_pass2" ELSE "dirs_done"
                    /\ fs_pass1' = IF pc = "dirs_pass1" THEN r.fs ELSE fs_pass1
  /\ UNCHANGED <<project_name, dry_run, fs0, j, template, readme_text, out,
                 exit_code, ext, faulted>>

NextDirs == DirStep

SpecDirs == InitDirs /\ [][NextDirs]_vars

\* ------------------------------------------------------------ claims

Terminal == pc \in {"rejected", "dry_run_done", "failed", "crashed", "done"}

\* The files the file template names, README.md aside.
ExpectedPlaceholders ==
  { <<"LICENSE">>,
    <<"metadata", "project_metadata.txt">>,
    <<"metadata", "sample_metadata.csv">>,
    <<"metadata", "experiment_metadata.xlsx">>,
    <<"environment", "requirements.txt">>,
    <<"environment", "environment.yml">> }

\* C1: a run that is not a dry run, starts without basePath/name and meets
\* no filesystem failure ends with the 22 listed directories and the seven
\* files under the project root, every placeholder file holding zero bytes.
C1_SkeletonCreated ==
  (pc = "done" /\ Kind(fs0, Root) = "absent") =>
    /\ ~dry_run
    /\ NDirs = 22
    /\ \A k \in 1..NDirs : Kind(fs, Root \o directories[k]) = "dir"
    /\ Kind(fs, Root \o <<"README.md">>) = "file"
    /\ Cardinality(ExpectedPlaceholders) = 6
    /\ \A f \in ExpectedPlaceholders :
         /\ Kind(fs, Root \o f) = "file"
         /\ Len(fs[Root \o f].content) = 0

C1_Witness ==
  /\ pc = "done"
  /\ Kind(fs0, Root) = "absent"
  /\ Kind(fs, Root \o <<"environment", "environment.yml">>) = "file"

\* C2 (as claimed): when basePath/name exists at the start, as a directory or as a plain
\* file, the run is rejected whatever the dry-run flag: it prints one
\* "Error:" line (one kind for a directory, another for a non-directory),
\* exits with status 1, and the filesystem stays as it was.
C2_ExistingTargetRejected ==
  Kind(fs0, Root) # "absent" =>
    /\ fs = fs0
    /\ ops = <<>>
    /\ pc \in {"start", "rejected"}
    /\ pc = "start" => (out = <<>> /\ exit_code = -1)
    /\ pc = "rejected" =>
         /\ exit_code = 1
         /\ out = << Out("stdout",
                         IF Kind(fs0, Root) = "dir" THEN "error_directory_already_exists"
                                                    ELSE "error_exists_not_a_directory",
                         Root, "", <<>>) >>

\* C3 (as claimed): a dry run writes nothing: the filesystem stays as it
\* started and the run attempts no write; when basePath/name does not exist
\* it prints the structure block and exits with status 0.
C3_DryRunWritesNothing ==
  dry_run =>
    /\ fs = fs0
    /\ ops = <<>>
    /\ (Terminal /\ Kind(fs0, Root) = "absent") =>
         /\ pc = "dry_run_done"
         /\ exit_code = 0
         /\ out = << Out("stdout", "structure", Base, "", structure_block(project_name)) >>

\* C4 (as claimed): every run that ends on the failure of a write, in the
\* directory loop or in a file write, has printed as its only output one
\* "Error:" line on stdout naming the path of the failed step, exits with a
\* non-zero status, and attempted nothing after that step.
C4_EveryFailureDiagnosed ==
  (pc \in {"failed", "crashed"} /\ Len(ops) > 0
     /\ out[Len(out)].path = ops[Len(ops)].path) =>
    /\ exit_code # 0
    /\ Len(out) = 1
    /\ out[1].stream = "stdout"
    /\ out[1].kind \in {"error_path_component_not_a_directory",
                        "error_failed_to_create_directory"}
    /\ out[1].path = ops[Len(ops)].path

\* The run wrote README.md and went on.
ReadmeWritten == pc \in {"placeholders", "summary", "done"}

ReadmeContent == fs[Root \o <<"README.md">>].content

HasToken(tpl, t) == \E k \in 1..Len(tpl.tokens) : tpl.tokens[k] = t

\* The template is a readable file that lacks one of the two named fields.
LacksSlot(tpl) ==
  tpl.state = "file" /\ (~HasToken(tpl, "{project_name}") \/ ~HasToken(tpl, "{structure}"))

\* The template is a readable file whose formatting raises.
FormatRaises(tpl) ==
  tpl.state = "file" /\ (HasToken(tpl, "{other}") \/ HasToken(tpl, "{"))

\* text holds the lines of part, in order and next to each other.
ContainsBlock(text, part) ==
  \E k \in 0..(Len(text) - Len(part)) : SubSeq(text, k + 1, k + Len(part)) = part

\* The title, the description and the tree of project_name.
IsFallbackText(text) ==
  /\ Len(text) = Len(structure_block(project_name)) + 5
  /\ text[1] = Line(0, project_name, "title", "")
  /\ text[3].kind = "text"
  /\ ContainsBlock(text, structure_block(project_name))

\* C5 (as claimed): a failure of the template never ends the run, and
\* README.md holds the fallback text whenever the template is absent or
\* malformed, a template lacking one of the two slots counting as malformed.
C5_TemplateFailureAbsorbed ==
  /\ ~(pc = "crashed" /\ out[Len(out)].path = template_path)
  /\ (ReadmeWritten /\ (template.state = "absent" \/ LacksSlot(template) \/ FormatRaises(template)))
       => IsFallbackText(ReadmeContent)

\* The listed directories of the project that exist as directories.
ListedDirsIn(f) == {d \in ListedDirs : Kind(f, Root \o d) = "dir"}

\* C6: the directory step raises no error on a tree in which some or all of
\* the listed directories exist as directories, leaves all 22 in place, and
\* a second application right after the first changes nothing.
C6_DirectoryStepIdempotent ==
  /\ pc # "dirs_error"
  /\ pc \in {"dirs_pass2", "dirs_done"} =>
       /\ ListedDirsIn(fs_pass1) = ListedDirs
       /\ Cardinality(ListedDirsIn(fs_pass1)) = 22
       /\ fs = fs_pass1

C6_Witness ==
  /\ pc = "dirs_done"
  /\ ListedDirsIn(fs0) # {}
  /\ ListedDirsIn(fs0) # ListedDirs
  /\ fs = fs_pass1

\* The directory the loop is at, and whether a component of its path (an
\* ancestor or the path itself) is a file.
CurrentDir == Root \o directories[i]

FileComponent(f, p) == \E q \in Prefixes(p) : Kind(f, q) = "file"

\* The run created nothing past the directory it failed on: it attempted
\* the first i directories only, wrote no file, and every entry it did not
\* find at the start or get from the other process is a directory on the
\* way to one of the directories before the failed one.
StoppedAtCurrentDir ==
  /\ Len(ops) = i
  /\ \A k \in 1..Len(ops) : ops[k] = [op |-> "mkdir", path |-> Root \o directories[k]]
  /\ \A k \in 1..(i - 1) : Kind(fs, Root \o directories[k]) = "dir"
  /\ \A q \in DOMAIN fs :
       \/ q \in DOMAIN fs0
       \/ \E e \in ext : e.path = q
       \/ \E k \in 1..(i - 1) : q \in Prefixes(Root \o directories[k])

\* C7 (as claimed): a failed directory loop whose directory has a path
\* component that is a file, the directory's own path included, printed the
\* path-conflict error.
C7_ConflictAlwaysPathComponentError ==
  (pc = "failed" /\ FileComponent(fs, CurrentDir)) =>
    /\ exit_code = 1
    /\ out = << Out("stdout", "error_path_component_not_a_directory", CurrentDir, "ENOTDIR", <<>>) >>
    /\ StoppedAtCurrentDir

\* C7 (amended): when an ancestor of the directory being created is a file
\* the run fails with the path-conflict error; when the directory's own
\* path is a file it fails with the general "Failed to create directory"
\* error (mkdir raised FileExistsError).  Either way the exit status is 1,
\* nothing further is created or written, and the directories created
\* before stay.
C7_ConflictErrorByPlace ==
  (pc = "failed" /\ FileComponent(fs, CurrentDir)) =>
    /\ exit_code = 1
    /\ out = << IF Kind(fs, CurrentDir) = "file"
                  THEN Out("stdout", "error_failed_to_create_directory", CurrentDir, "EEXIST", <<>>)
                  ELSE Out("stdout", "error_path_component_not_a_directory", CurrentDir, "ENOTDIR", <<>>) >>
    /\ StoppedAtCurrentDir

C7_Witness ==
  /\ pc = "failed"
  /\ i > 1
  /\ Kind(fs, CurrentDir) = "file"
  /\ Kind(fs, Root \o directories[1]) = "dir"

\* What the other process created is the project root as a directory and
\* otherwise only entries of the layout, each of its kind.
ExternalMadeProject ==
  /\ [path |-> Root, kind |-> "dir"] \in ext
  /\ \A e \in ext :
       \/ e.path = Root /\ e.kind = "dir"
       \/ \E d \in DirPathsRel : e.path = Root \o d /\ e.kind = "dir"
       \/ \E f \in FilePathsRel : e.path = Root \o f /\ e.kind = "file"

\* C8: when another process creates the project root (with or without
\* files of the layout in it) after the existence check, a run that is not
\* a dry run and meets no refusal or failure of the system is not rejected and does
\* not fail, and at its end every file of the layout holds what the run
\* wrote: README.md the generated text, each placeholder zero bytes.
C8_RaceOverwrites ==
  (~dry_run /\ ExternalMadeProject /\ ~faulted) =>
    /\ pc \notin {"rejected", "failed", "crashed", "dry_run_done"}
    /\ pc = "done" =>
         /\ exit_code = 0
         /\ Kind(fs, Root \o <<"README.md">>) = "file"
         /\ ReadmeContent = readme_text
         /\ ReadmeContent # ExistingText
         /\ \A f \in ExpectedPlaceholders :
              Kind(fs, Root \o f) = "file" /\ Len(fs[Root \o f].content) = 0

C8_Witness ==
  /\ pc = "done"
  /\ [path |-> Root, kind |-> "dir"] \in ext
  /\ [path |-> Root \o <<"LICENSE">>, kind |-> "file"] \in ext
  /\ fs[Root \o <<"LICENSE">>].content = <<>>

\* The run's k-th filesystem write is the write of the file f.
IsWriteOf(k, f) == ops[k] = [op |-> "write", path |-> Root \o f]

\* The order of the steps, read off the writes attempted so far.
C9_Order ==
  /\ pc \in {"start", "checked", "rejected", "dry_run_done"} => (ops = <<>> /\ fs = fs0)
  /\ \A k \in 1..Len(ops) :
       /\ IsWriteOf(k, <<"README.md">>) =>
            /\ k = 23
            /\ \A m \in 1..22 :
                 /\ ops[m] = [op |-> "mkdir", path |-> Root \o directories[m]]
                 /\ Kind(fs, Root \o directories[m]) = "dir"
       /\ (\E f \in ExpectedPlaceholders : IsWriteOf(k, f)) =>
            \E m \in 1..(k - 1) : IsWriteOf(m, <<"README.md">>)
  /\ (\E n \in 1..Len(out) : out[n].kind = "created_successfully_at") =>
       /\ pc = "done"
       /\ \A f \in ExpectedPlaceholders :
            (\E k \in 1..Len(ops) : IsWriteOf(k, f)) /\ Kind(fs, Root \o f) = "file"

\* The transitions of START -> PRECONDITION_CHECK -> {REJECTED | DRY_RUN_DONE
\* | DIRS_CREATED -> README_WRITTEN -> PLACEHOLDERS_WRITTEN -> DONE}, a
\* failure ending the run from the existence check, the directory loop, the
\* template lookup or a file write; the two loops stay in their state while
\* their index grows.
C9_Edge ==
  \/ <<pc, pc'>> \in { <<"start", "rejected">>, <<"start", "checked">>,
                       <<"start", "crashed">>, <<"template", "crashed">>,
                       <<"checked", "dry_run_done">>, <<"checked", "mkdir">>,
                       <<"mkdir", "template">>, <<"mkdir", "failed">>,
                       <<"template", "write_readme">>,
                       <<"write_readme", "placeholders">>, <<"write_readme", "crashed">>,
                       <<"placeholders", "summary">>, <<"placeholders", "crashed">>,
                       <<"summary", "done">> }
  \/ pc = "mkdir" /\ pc' = "mkdir" /\ i' = i + 1
  \/ pc = "placeholders" /\ pc' = "placeholders" /\ j' = j + 1

\* C9: every run follows the linear state machine: nothing is written
\* before the existence check has passed, README.md is written only after
\* all 22 directories, placeholders only after README.md, the success
\* message only after the six placeholders, no state is entered again once
\* left, and every run reaches a terminal state (an uncaught exception
\* counted as FAILED).
C9_LinearStateMachine == [](C9_Order) /\ [][C9_Edge]_vars /\ <>Terminal

C9_Witness ==
  /\ pc = "done"
  /\ Len(ops) = 29
  /\ IsWriteOf(23, <<"README.md">>)

\* The entries of the project root in the filesystem f, relative to it.
EntriesUnder(f, root) ==
  {[path |-> SubSeq(q, Len(root) + 1, Len(q)), kind |-> f[q].kind] :
     q \in {r \in DOMAIN f : Len(r) >= Len(root) /\ SubSeq(r, 1, Len(root)) = root}}

\* C10: the tree text names exactly what a successful run creates: the
\* entries under the project root after a run that found no root are the
\* entries the structure block names, each of its kind, the 22 listed
\* directories and the seven files among them; and that structure block is
\* what a dry run prints and what the fallback README embeds.
C10_TreeTextMatchesCreated ==
  /\ (pc = "done" /\ Kind(fs0, Root) = "absent") =>
       /\ EntriesUnder(fs, Root) = TreeEntries(structure_block(project_name))
       /\ \A k \in 1..NDirs :
            [path |-> directories[k], kind |-> "dir"] \in TreeEntries(structure_block(project_name))
       /\ \A f \in ExpectedPlaceholders \cup {<<"README.md">>} :
            [path |-> f, kind |-> "file"] \in TreeEntries(structure_block(project_name))
       /\ template.state = "absent" => ContainsBlock(ReadmeContent, structure_block(project_name))
  /\ pc = "dry_run_done" =>
       (Len(out) = 1 /\ out[1].body = structure_block(project_name))

C10_Witness ==
  /\ pc = "done"
  /\ Kind(fs0, Root) = "absent"
  /\ template.state = "absent"
  /\ Cardinality(EntriesUnder(fs, Root)) = 35

====
